---------------------------- MODULE Spec2Model ----------------------------
(***************************************************************************)
(* A model of the LS-8 style emulator in src/cpu.py: the CPU object, its   *)
(* instruction handlers, the interrupt controller and one iteration of the *)
(* run loop.  Values are Python integers (unbounded, no 8-bit masking) and *)
(* list indexing follows Python (a negative index counts from the end, an  *)
(* index outside the list raises IndexError).  A raised exception leaves   *)
(* the machine in the state it had when it was raised; `status` then names *)
(* the exception.                                                          *)
(***************************************************************************)
EXTENDS Integers, Sequences, FiniteSets, TLC

VARIABLES ram, reg, pc, fl, interrupts_active, status, out, last, calls, steps

vars == <<ram, reg, pc, fl, interrupts_active, status, out, last, calls, steps>>

(***************************************************************************)
(* Opcode constants, cpu.py lines 7-32, and register aliases, lines 34-35. *)
(***************************************************************************)
ADD == 160
ADDI == 165
CMP == 167
MUL == 162
LDI == 130
PRN == 71
HLT == 1
PUSH == 69
POP == 70
CALL == 80
RET == 17
JMP == 84
JNE == 86
JEQ == 85
AND == 168
OR == 170
SHL == 172
SHR == 173
MOD == 164
XOR == 171
NOT == 105
IRET == 19

SP == 7
IM == 5

\* The interrupt-status (pending) register.  cpu.py uses the name IS and
\* never binds it; 6 is the register the LS-8 design gives it.  The model of
\* the code never reads this value: it only states which register the
\* properties about pending interrupts speak of.
IS == 6

\* Sizes of self.ram and self.reg, and the initial stack pointer (__init__).
RamSize == 256
RegCount == 8
StackTop == 244

\* First cell of the interrupt vector table (check_interrupts: 0xF8 + i).
VectorBase == 248

(***************************************************************************)
(* Bounds of the exploration.                                              *)
(***************************************************************************)
\* Number of operations applied to the CPU object in one behaviour.
MaxSteps == 3
\* Number of stack operations applied in one behaviour of SpecStack.
MaxStackSteps == 6
\* Largest magnitude of a value an ALU operation may produce in the model.
MaxVal == 1000
\* Largest shift count explored by SHL and SHR.
MaxShift == 9
\* Number of iterations of the run loop in one behaviour of SpecRun.
MaxRunSteps == 8

\* Register operands and immediate values handed to the handlers.
RegNums == {0, 1}
DstRegs == {0}
SrcRegs == {0, 1}
PushRegs == {0, 1, SP}
StackRegNums == {0, SP}
IntrRegs == {0, IM, IS}
Vals == {16, 100, 200}
\* Bytes looked up in the dispatch table: 0, 2 and 255 are no opcodes.
LookupBytes == {0, 2, 255, PRN}

(***************************************************************************)
(* Python integer and list primitives.                                     *)
(***************************************************************************)
\* Python list indexing: the cell a valid index denotes.
PyIndex(i, n) == IF i < 0 THEN i + n ELSE i

\* Whether list[i] is inside a list of length n (otherwise IndexError).
InRange(i, n) == (-n <= i) /\ (i < n)

RECURSIVE Pow2(_)
Pow2(n) == IF n <= 0 THEN 1 ELSE 2 * Pow2(n - 1)

\* Python's & | ^ on unbounded two's-complement integers.
RECURSIVE BitAnd(_, _)
BitAnd(a, b) ==
    IF a = 0 \/ b = 0 THEN 0
    ELSE IF a = -1 THEN b
    ELSE IF b = -1 THEN a
    ELSE ((a % 2) * (b % 2)) + (2 * BitAnd(a \div 2, b \div 2))

RECURSIVE BitOr(_, _)
BitOr(a, b) ==
    IF a = 0 THEN b
    ELSE IF b = 0 THEN a
    ELSE IF a = -1 \/ b = -1 THEN -1
    ELSE (IF (a % 2) + (b % 2) > 0 THEN 1 ELSE 0) + (2 * BitOr(a \div 2, b \div 2))

RECURSIVE BitXor(_, _)
BitXor(a, b) ==
    IF a = 0 THEN b
    ELSE IF b = 0 THEN a
    ELSE IF a = -1 THEN -b - 1
    ELSE IF b = -1 THEN -a - 1
    ELSE (((a % 2) + (b % 2)) % 2) + (2 * BitXor(a \div 2, b \div 2))

\* Python's ~x.
BitNot(a) == -a - 1

\* Python's a % b for b # 0: the result has the sign of the divisor.
PyMod(a, b) == IF b > 0 THEN a % b ELSE -((-a) % (-b))

(***************************************************************************)
(* The CPU object as a record, and the exceptions a handler can raise.     *)
(***************************************************************************)
Cur ==
    [ram |-> ram, reg |-> reg, pc |-> pc, fl |-> fl,
     interrupts_active |-> interrupts_active, status |-> status, out |-> out]

Raise(s, exc) == [s EXCEPT !.status = exc]

Running(s) == s.status = "running"

\* CPU.__init__ (the branch table is the CASE of Dispatch below).
CPU_init ==
    [ram |-> [a \in 0..(RamSize - 1) |-> 0],
     reg |-> [r \in 0..(RegCount - 1) |-> IF r = SP THEN StackTop ELSE 0],
     pc |-> 0, fl |-> 0, interrupts_active |-> TRUE,
     status |-> "running", out |-> <<>>]

\* self.reg[i] = v
SetReg(s, i, v) == [s EXCEPT !.reg[PyIndex(i, RegCount)] = v]

\* self.reg[i]
Reg(s, i) == s.reg[PyIndex(i, RegCount)]

\* CPU.ram_read
ram_read(s, mar) == s.ram[PyIndex(mar, RamSize)]

\* CPU.ram_write
ram_write(s, mdr, mar) ==
    IF InRange(mar, RamSize)
    THEN [s EXCEPT !.ram[PyIndex(mar, RamSize)] = mdr]
    ELSE Raise(s, "IndexError")


(***************************************************************************)
(* Instruction handlers: CPU.<name>(operand_a, operand_b) as a function    *)
(* from the machine before the call to the machine after it.               *)
(***************************************************************************)
\* Whether reading or writing self.reg[i] raises IndexError.
BadReg(i) == ~InRange(i, RegCount)

\* Whether self.ram[i] raises IndexError.
BadRam(i) == ~InRange(i, RamSize)

CPU_LDI(s, reg_num, value) ==
    IF BadReg(reg_num) THEN Raise(s, "IndexError")
    ELSE SetReg(s, reg_num, value)

CPU_PRN(s, reg_num, b) ==
    IF BadReg(reg_num) THEN Raise(s, "IndexError")
    ELSE [s EXCEPT !.out = Append(@, [num |-> Reg(s, reg_num)])]

\* sys.exit(): SystemExit ends run() and the process.
CPU_HLT(s, a, b) == Raise(s, "halted")

\* POP that leaves the stack pointer where it was.
CPU_POP_NoIncrement(s, reg_num, b) ==
    IF BadRam(s.reg[SP]) \/ BadReg(reg_num) THEN Raise(s, "IndexError")
    ELSE SetReg(s, reg_num, ram_read(s, s.reg[SP]))

CPU_POP(s, reg_num, b) ==
    IF BadRam(s.reg[SP]) \/ BadReg(reg_num) THEN Raise(s, "IndexError")
    ELSE LET value == ram_read(s, s.reg[SP])
             s1 == SetReg(s, reg_num, value)
         IN  [s1 EXCEPT !.reg[SP] = @ + 1]

CPU_PUSH(s, reg_num, b) ==
    IF BadReg(reg_num) THEN Raise(s, "IndexError")
    ELSE LET value == Reg(s, reg_num)
             s1 == [s EXCEPT !.reg[SP] = @ - 1]
         IN  ram_write(s1, value, s1.reg[SP])

\* self.reg[reg_a] <op>= self.reg[reg_b] with result v.
AluStore(s, reg_a, reg_b, v) ==
    IF BadReg(reg_a) \/ BadReg(reg_b) THEN Raise(s, "IndexError")
    ELSE SetReg(s, reg_a, v)

\* The second operand of a two-register handler, 0 when the index is bad
\* (AluStore then raises before the value is used).
RegOr0(s, i) == IF BadReg(i) THEN 0 ELSE Reg(s, i)

CPU_ALU_MUL(s, reg_a, reg_b) ==
    AluStore(s, reg_a, reg_b, RegOr0(s, reg_a) * RegOr0(s, reg_b))

\* An ADD that also writes a zero-result bit to the flags.
CPU_ALU_ADD_SetsFlags(s, reg_a, reg_b) ==
    LET v == RegOr0(s, reg_a) + RegOr0(s, reg_b)
    IN  [AluStore(s, reg_a, reg_b, v) EXCEPT !.fl = IF v = 0 THEN 1 ELSE 0]

CPU_ALU_ADD(s, reg_a, reg_b) ==
    AluStore(s, reg_a, reg_b, RegOr0(s, reg_a) + RegOr0(s, reg_b))

CPU_ADDI(s, reg_num, immediate) ==
    IF BadReg(reg_num) THEN Raise(s, "IndexError")
    ELSE SetReg(s, reg_num, Reg(s, reg_num) + immediate)

\* CMP with the less-than and greater-than flag bits exchanged.
CPU_ALU_CMP_Swapped(s, reg_a, reg_b) ==
    IF BadReg(reg_a) \/ BadReg(reg_b) THEN Raise(s, "IndexError")
    ELSE IF Reg(s, reg_a) = Reg(s, reg_b) THEN [s EXCEPT !.fl = 1]
    ELSE IF Reg(s, reg_a) < Reg(s, reg_b) THEN [s EXCEPT !.fl = 2]
    ELSE [s EXCEPT !.fl = 4]

CPU_ALU_CMP(s, reg_a, reg_b) ==
    IF BadReg(reg_a) \/ BadReg(reg_b) THEN Raise(s, "IndexError")
    ELSE IF Reg(s, reg_a) = Reg(s, reg_b) THEN [s EXCEPT !.fl = 1]
    ELSE IF Reg(s, reg_a) < Reg(s, reg_b) THEN [s EXCEPT !.fl = 4]
    ELSE IF Reg(s, reg_a) > Reg(s, reg_b) THEN [s EXCEPT !.fl = 2]
    ELSE s

\* CALL that pushes the address of its own operand, pc + 1.
CPU_CALL_OffByOne(s, reg_num, b) ==
    LET s1 == [s EXCEPT !.reg[SP] = @ - 1]
        s2 == ram_write(s1, s.pc + 1, s1.reg[SP])
    IN  IF ~Running(s2) THEN s2
        ELSE IF BadReg(reg_num) THEN Raise(s2, "IndexError")
        ELSE [s2 EXCEPT !.pc = Reg(s2, reg_num)]

CPU_CALL(s, reg_num, b) ==
    LET s1 == [s EXCEPT !.reg[SP] = @ - 1]
        return_address == s.pc + 2
        s2 == ram_write(s1, return_address, s1.reg[SP])
    IN  IF ~Running(s2) THEN s2
        ELSE IF BadReg(reg_num) THEN Raise(s2, "IndexError")
        ELSE [s2 EXCEPT !.pc = Reg(s2, reg_num)]

CPU_RET(s, a, b) ==
    IF BadRam(s.reg[SP]) THEN Raise(s, "IndexError")
    ELSE [s EXCEPT !.pc = ram_read(s, s.reg[SP]), !.reg[SP] = @ + 1]

CPU_JMP(s, reg_num, b) ==
    IF BadReg(reg_num) THEN Raise(s, "IndexError")
    ELSE [s EXCEPT !.pc = Reg(s, reg_num)]

CPU_JNE(s, reg_num, b) ==
    IF BitAnd(s.fl, 1) = 0 THEN CPU_JMP(s, reg_num, b)
    ELSE [s EXCEPT !.pc = @ + 2]

\* JEQ that tests the greater-than bit instead of the equal bit.
CPU_JEQ_WrongBit(s, reg_num, b) ==
    IF BitAnd(s.fl, 2) # 0 THEN CPU_JMP(s, reg_num, b)
    ELSE [s EXCEPT !.pc = @ + 2]

CPU_JEQ(s, reg_num, b) ==
    IF BitAnd(s.fl, 1) # 0 THEN CPU_JMP(s, reg_num, b)
    ELSE [s EXCEPT !.pc = @ + 2]

\* The first statement calls self.handle_pop, which CPU does not define:
\* AttributeError before any register, flag or pointer is touched.
CPU_IRET(s, a, b) == Raise(s, "AttributeError")

CPU_AND(s, reg_a, reg_b) ==
    AluStore(s, reg_a, reg_b, BitAnd(RegOr0(s, reg_a), RegOr0(s, reg_b)))

CPU_NOT(s, reg_num, b) ==
    IF BadReg(reg_num) THEN Raise(s, "IndexError")
    ELSE SetReg(s, reg_num, BitNot(Reg(s, reg_num)))

CPU_OR(s, reg_a, reg_b) ==
    AluStore(s, reg_a, reg_b, BitOr(RegOr0(s, reg_a), RegOr0(s, reg_b)))

\* x << n and x >> n raise ValueError for a negative shift count.
CPU_SHL(s, reg_a, reg_b) ==
    IF BadReg(reg_a) \/ BadReg(reg_b) THEN Raise(s, "IndexError")
    ELSE IF Reg(s, reg_b) < 0 THEN Raise(s, "ValueError")
    ELSE SetReg(s, reg_a, Reg(s, reg_a) * Pow2(Reg(s, reg_b)))

CPU_SHR(s, reg_a, reg_b) ==
    IF BadReg(reg_a) \/ BadReg(reg_b) THEN Raise(s, "IndexError")
    ELSE IF Reg(s, reg_b) < 0 THEN Raise(s, "ValueError")
    ELSE SetReg(s, reg_a, Reg(s, reg_a) \div Pow2(Reg(s, reg_b)))

CPU_XOR(s, reg_a, reg_b) ==
    AluStore(s, reg_a, reg_b, BitXor(RegOr0(s, reg_a), RegOr0(s, reg_b)))

\* A zero divisor prints the message and calls self.handle_hlt, which CPU
\* does not define: AttributeError, not the SystemExit of HLT.
CPU_MOD(s, reg_a, reg_b) ==
    IF BadReg(reg_b) THEN Raise(s, "IndexError")
    ELSE IF Reg(s, reg_b) = 0
    THEN Raise([s EXCEPT !.out = Append(@, [msg |-> "ERROR: Cannot divide by zero"])],
               "AttributeError")
    ELSE IF BadReg(reg_a) THEN Raise(s, "IndexError")
    ELSE SetReg(s, reg_a, PyMod(Reg(s, reg_a), Reg(s, reg_b)))

(***************************************************************************)
(* Interrupt controller.  The name IS is used but never bound in cpu.py,   *)
(* so every evaluation of self.reg[IS] raises NameError.                   *)
(***************************************************************************)
\* secs_elapsed >= 1 is the input `tick`.
timer_interrupt(s, tick) == IF tick THEN Raise(s, "NameError") ELSE s

\* msvcrt.kbhit() is the input `key`; IS is evaluated before the keystroke
\* is read or stored.
keyboard_interrupt(s, key) == IF key THEN Raise(s, "NameError") ELSE s

util_push(s, value) ==
    LET s1 == [s EXCEPT !.reg[SP] = @ - 1]
    IN  ram_write(s1, value, s1.reg[SP])

\* masked = self.reg[IM] & self.reg[IS] is the first statement under
\* `if self.interrupts_active`; nothing after it is ever executed.
check_interrupts(s) ==
    IF s.interrupts_active THEN Raise(s, "NameError") ELSE s


(***************************************************************************)
(* The run loop.                                                           *)
(***************************************************************************)
\* The opcodes of self.branch_table.
Opcodes ==
    {HLT, LDI, PRN, MUL, PUSH, POP, CALL, RET, IRET, ADD, JMP, JNE, JEQ, CMP,
     AND, OR, XOR, SHL, SHR, MOD, NOT, ADDI}

\* self.branch_table: the handler each key is bound to.
branch_table(s, ir, a, b) ==
    CASE ir = HLT -> CPU_HLT(s, a, b)
      [] ir = LDI -> CPU_LDI(s, a, b)
      [] ir = PRN -> CPU_PRN(s, a, b)
      [] ir = MUL -> CPU_ALU_MUL(s, a, b)
      [] ir = PUSH -> CPU_PUSH(s, a, b)
      [] ir = POP -> CPU_POP(s, a, b)
      [] ir = CALL -> CPU_CALL(s, a, b)
      [] ir = RET -> CPU_RET(s, a, b)
      [] ir = IRET -> CPU_IRET(s, a, b)
      [] ir = ADD -> CPU_ALU_ADD(s, a, b)
      [] ir = JMP -> CPU_JMP(s, a, b)
      [] ir = JNE -> CPU_JNE(s, a, b)
      [] ir = JEQ -> CPU_JEQ(s, a, b)
      [] ir = CMP -> CPU_ALU_CMP(s, a, b)
      [] ir = AND -> CPU_AND(s, a, b)
      [] ir = OR -> CPU_OR(s, a, b)
      [] ir = XOR -> CPU_XOR(s, a, b)
      [] ir = SHL -> CPU_SHL(s, a, b)
      [] ir = SHR -> CPU_SHR(s, a, b)
      [] ir = MOD -> CPU_MOD(s, a, b)
      [] ir = NOT -> CPU_NOT(s, a, b)
      [] ir = ADDI -> CPU_ADDI(s, a, b)

\* A lookup that hands a byte outside the table on as if no instruction
\* stood there.
Dispatch_UnknownIsNoOp(s, ir, a, b) ==
    IF ir \in Opcodes THEN branch_table(s, ir, a, b) ELSE s

\* self.branch_table[ir](operand_a, operand_b); a byte that is not a key
\* raises KeyError.
Dispatch(s, ir, a, b) ==
    IF ir \in Opcodes THEN branch_table(s, ir, a, b) ELSE Raise(s, "KeyError")

\* ir >> 6 and ir >> 4 & 0b0001 (ir may be any integer a cell holds).
OperandCount(ir) == ir \div 64
SetPc(ir) == BitAnd(ir \div 16, 1)

\* Lines 134-144: fetch, decode, run the handler, advance.
FetchExecute(s) ==
    IF BadRam(s.pc) \/ BadRam(s.pc + 1) \/ BadRam(s.pc + 2)
    THEN Raise(s, "IndexError")
    ELSE LET ir == ram_read(s, s.pc)
             operand_a == ram_read(s, s.pc + 1)
             operand_b == ram_read(s, s.pc + 2)
             instruction_length == OperandCount(ir) + 1
             s1 == Dispatch(s, ir, operand_a, operand_b)
         IN  IF ~Running(s1) THEN s1
             ELSE IF SetPc(ir) = 0
             THEN [s1 EXCEPT !.pc = @ + instruction_length]
             ELSE s1

\* One iteration of `while True` in CPU.run.
run(s, tick, key) ==
    LET s1 == timer_interrupt(s, tick)
        s2 == IF Running(s1) THEN keyboard_interrupt(s1, key) ELSE s1
        s3 == IF Running(s2) THEN check_interrupts(s2) ELSE s2
    IN  IF Running(s3) THEN FetchExecute(s3) ELSE s3

(***************************************************************************)
(* Bookkeeping of the exploration: the last operation with the registers   *)
(* and program counter it started from, and the CALLs not yet returned.    *)
(***************************************************************************)
NoOp ==
    [op |-> "none", a |-> 0, b |-> 0, reg |-> CPU_init.reg, pc |-> 0, fl |-> 0,
     m |-> 0]

\* A call frame stays matched while the stack pointer is moved only by
\* PUSH, POP, CALL and RET, never rises above the cell holding the return
\* address, and stays inside memory.
StackOps == {"PUSH", "POP", "CALL", "RET"}

FramesAfter(op, s, s2) ==
    LET top == calls[Len(calls)]
        sp2 == s2.reg[SP]
        changedSP == s2.reg[SP] # s.reg[SP]
        kept == IF op = "RET" /\ Len(calls) > 0 /\ s.reg[SP] = top.sp - 1
                THEN SubSeq(calls, 1, Len(calls) - 1)
                ELSE calls
        marked == [i \in 1..Len(kept) |->
                     [kept[i] EXCEPT !.ok =
                        @ /\ (sp2 <= kept[i].sp - 1) /\ (sp2 >= 0)
                          /\ (changedSP => op \in StackOps)
                          /\ Running(s2)]]
    IN  IF op = "CALL" /\ Running(s2)
        THEN Append(marked, [ret |-> s.pc + 2, sp |-> s.reg[SP],
                             ok |-> s.reg[SP] >= 1 /\ s.reg[SP] < RamSize])
        ELSE marked

\* The depth of the call frame a RET returns from: the RET finds the stack
\* pointer at the cell where the innermost open CALL left its return address
\* and that frame is still matched; 0 otherwise.
MatchedFrame(op, s, s2) ==
    IF /\ op = "RET"
       /\ Running(s2)
       /\ Len(calls) > 0
       /\ calls[Len(calls)].ok
       /\ s.reg[SP] = calls[Len(calls)].sp - 1
    THEN Len(calls)
    ELSE 0

\* Whether every value of the machine is within the explored magnitude.
Fits(s) ==
    /\ \A r \in DOMAIN s.reg : s.reg[r] <= MaxVal /\ s.reg[r] >= -MaxVal
    /\ s.pc <= MaxVal /\ s.pc >= -MaxVal

\* The operation `op` with operands a, b takes the machine to s2, as one of
\* at most n operations.
Apply(n, op, a, b, s2) ==
    /\ steps < n
    /\ status = "running"
    /\ Fits(s2)
    /\ ram' = s2.ram
    /\ reg' = s2.reg
    /\ pc' = s2.pc
    /\ fl' = s2.fl
    /\ interrupts_active' = s2.interrupts_active
    /\ status' = s2.status
    /\ out' = s2.out
    /\ last' = [op |-> op, a |-> a, b |-> b, reg |-> reg, pc |-> pc, fl |-> fl,
                m |-> MatchedFrame(op, Cur, s2)]
    /\ calls' = FramesAfter(op, Cur, s2)
    /\ steps' = steps + 1

Init ==
    /\ ram = CPU_init.ram
    /\ reg = CPU_init.reg
    /\ pc = CPU_init.pc
    /\ fl = CPU_init.fl
    /\ interrupts_active = CPU_init.interrupts_active
    /\ status = CPU_init.status
    /\ out = CPU_init.out
    /\ last = NoOp
    /\ calls = <<>>
    /\ steps = 0

(***************************************************************************)
(* Operations on the CPU object: each handler called with operands from    *)
(* the given sets, as one of at most n operations, and an iteration of the *)
(* run loop.                                                               *)
(***************************************************************************)
DoLDI(n, R) ==
    \E r \in R, v \in Vals : Apply(n, "LDI", r, v, CPU_LDI(Cur, r, v))
DoPRN(n) == \E r \in DstRegs : Apply(n, "PRN", r, 0, CPU_PRN(Cur, r, 0))
DoHLT(n) == Apply(n, "HLT", 0, 0, CPU_HLT(Cur, 0, 0))
DoPUSH(n, R) == \E r \in R : Apply(n, "PUSH", r, 0, CPU_PUSH(Cur, r, 0))
DoPOP(n, R) == \E r \in R : Apply(n, "POP", r, 0, CPU_POP(Cur, r, 0))
DoCALL(n, R) == \E r \in R : Apply(n, "CALL", r, 0, CPU_CALL(Cur, r, 0))
DoRET(n) == Apply(n, "RET", 0, 0, CPU_RET(Cur, 0, 0))
DoIRET(n) == Apply(n, "IRET", 0, 0, CPU_IRET(Cur, 0, 0))
DoMUL(n) ==
    \E a \in DstRegs, b \in SrcRegs : Apply(n, "MUL", a, b, CPU_ALU_MUL(Cur, a, b))
DoADD(n) ==
    \E a \in DstRegs, b \in SrcRegs : Apply(n, "ADD", a, b, CPU_ALU_ADD(Cur, a, b))
DoADDI(n) ==
    \E r \in DstRegs, v \in Vals : Apply(n, "ADDI", r, v, CPU_ADDI(Cur, r, v))
DoCMP(n) ==
    \E a \in DstRegs, b \in SrcRegs : Apply(n, "CMP", a, b, CPU_ALU_CMP(Cur, a, b))
DoJMP(n) == \E r \in DstRegs : Apply(n, "JMP", r, 0, CPU_JMP(Cur, r, 0))
DoJNE(n) == \E r \in DstRegs : Apply(n, "JNE", r, 0, CPU_JNE(Cur, r, 0))
DoJEQ(n) == \E r \in DstRegs : Apply(n, "JEQ", r, 0, CPU_JEQ(Cur, r, 0))
DoAND(n) ==
    \E a \in DstRegs, b \in SrcRegs : Apply(n, "AND", a, b, CPU_AND(Cur, a, b))
DoNOT(n) == \E r \in DstRegs : Apply(n, "NOT", r, 0, CPU_NOT(Cur, r, 0))
DoOR(n) ==
    \E a \in DstRegs, b \in SrcRegs : Apply(n, "OR", a, b, CPU_OR(Cur, a, b))
DoSHL(n) ==
    \E a \in DstRegs, b \in SrcRegs :
        /\ reg[b] <= MaxShift
        /\ Apply(n, "SHL", a, b, CPU_SHL(Cur, a, b))
DoSHR(n) ==
    \E a \in DstRegs, b \in SrcRegs :
        /\ reg[b] <= MaxShift
        /\ Apply(n, "SHR", a, b, CPU_SHR(Cur, a, b))
DoXOR(n) ==
    \E a \in DstRegs, b \in SrcRegs : Apply(n, "XOR", a, b, CPU_XOR(Cur, a, b))
DoMOD(n) ==
    \E a \in DstRegs, b \in SrcRegs : Apply(n, "MOD", a, b, CPU_MOD(Cur, a, b))
DoCheckInterrupts(n) ==
    Apply(n, "check_interrupts", 0, 0, check_interrupts(Cur))
\* The operands recorded for an iteration are its two inputs: whether the
\* timer has a second elapsed and whether a key is waiting.
DoRun(n) ==
    \E tick, key \in BOOLEAN :
        Apply(n, "run", IF tick THEN 1 ELSE 0, IF key THEN 1 ELSE 0,
              run(Cur, tick, key))
\* self.branch_table[ir](operand_a, 0) looked up directly, with bytes that
\* are and are not keys of the table.
DoDispatch(n) ==
    \E ir \in LookupBytes, a \in DstRegs :
        Apply(n, "dispatch", ir, a, Dispatch(Cur, ir, a, 0))

\* The handlers called on the constructed machine.
Next ==
    \/ DoLDI(MaxSteps, RegNums) \/ DoPRN(MaxSteps) \/ DoHLT(MaxSteps)
    \/ DoPUSH(MaxSteps, PushRegs) \/ DoPOP(MaxSteps, PushRegs)
    \/ DoCALL(MaxSteps, DstRegs) \/ DoRET(MaxSteps) \/ DoIRET(MaxSteps)
    \/ DoMUL(MaxSteps) \/ DoADD(MaxSteps) \/ DoADDI(MaxSteps) \/ DoCMP(MaxSteps)
    \/ DoJMP(MaxSteps) \/ DoJNE(MaxSteps) \/ DoJEQ(MaxSteps)
    \/ DoAND(MaxSteps) \/ DoNOT(MaxSteps) \/ DoOR(MaxSteps)
    \/ DoSHL(MaxSteps) \/ DoSHR(MaxSteps) \/ DoXOR(MaxSteps) \/ DoMOD(MaxSteps)
    \/ DoCheckInterrupts(MaxSteps) \/ DoRun(MaxSteps) \/ DoDispatch(MaxSteps)

Spec == Init /\ [][Next]_vars

\* The stack and interrupt operations alone, from the constructed machine.
NextStack ==
    \/ DoPUSH(MaxStackSteps, StackRegNums) \/ DoPOP(MaxStackSteps, StackRegNums)
    \/ DoCALL(MaxStackSteps, StackRegNums) \/ DoRET(MaxStackSteps)
    \/ DoIRET(MaxStackSteps) \/ DoCheckInterrupts(MaxStackSteps)

SpecStack == Init /\ [][NextStack]_vars

\* The interrupt controller: the mask and pending registers are loaded, the
\* controller polls, and IRET returns.
NextIntr ==
    \/ DoLDI(MaxSteps, IntrRegs) \/ DoPUSH(MaxSteps, DstRegs)
    \/ DoCheckInterrupts(MaxSteps) \/ DoIRET(MaxSteps) \/ DoRun(MaxSteps)

SpecIntr == Init /\ [][NextIntr]_vars

\* CPU.load after the file's lines are parsed by int(line, 2): the values
\* are written from address 0 on.
RECURSIVE load(_, _, _)
load(s, program, address) ==
    IF address >= Len(program) THEN s
    ELSE LET s1 == ram_write(s, program[address + 1], address)
         IN  IF Running(s1) THEN load(s1, program, address + 1) ELSE s1

\* The programs run: LDI R0,a; LDI R1,b; <op> R0,R1; PRN R0; HLT.
AluOpcodes == {MUL, ADD, AND, OR, XOR, SHL, SHR, MOD, CMP}
ProgVals == {0, 3, 5, 255}
Programs ==
    {<<LDI, 0, a, LDI, 1, b, op, 0, 1, PRN, 0, HLT>> :
        a \in ProgVals, b \in ProgVals, op \in AluOpcodes}

\* ls8-style use: construct, load a program, run.
InitRun ==
    \E program \in Programs :
        LET s == load(CPU_init, program, 0)
        IN  /\ ram = s.ram
            /\ reg = s.reg
            /\ pc = s.pc
            /\ fl = s.fl
            /\ interrupts_active = s.interrupts_active
            /\ status = s.status
            /\ out = s.out
            /\ last = NoOp
            /\ calls = <<>>
            /\ steps = 0

NextRun == DoRun(MaxRunSteps)

SpecRun == InitRun /\ [][NextRun]_vars

(***************************************************************************)
(* Properties.                                                             *)
(***************************************************************************)
\* Whether the stack cells sp .. sp + 8 are all inside memory.
FrameInMemory(sp) == sp >= 0 /\ sp + 8 < RamSize

\* The registers R0..R6 saved and restored around an interrupt.
SavedRegs == 0..6

\* C1: interrupt dispatch followed by IRET restores R0..R6, the flags, the
\* program counter and the stack pointer to their values before the
\* dispatch and re-enables interrupts.  Stated as its three parts: polling
\* with interrupts active and an enabled interrupt pending dispatches (the
\* machine keeps running, with interrupts disabled); IRET pops R6..R0, the
\* flags and the program counter, moves the stack pointer up by nine and
\* re-enables interrupts; and IRET right after a dispatch leaves the values
\* the dispatch started from.
C1_DispatchIretRoundTrip ==
    [][ /\ ( /\ last'.op = "check_interrupts"
             /\ interrupts_active
             /\ BitAnd(reg[IM], reg[IS]) # 0 )
           => (status' = "running" /\ ~interrupts_active')
        /\ (last'.op = "IRET" /\ FrameInMemory(reg[SP]))
           => /\ status' = "running"
              /\ interrupts_active'
              /\ \A j \in SavedRegs : reg'[j] = ram[reg[SP] + 6 - j]
              /\ fl' = ram[reg[SP] + 7]
              /\ pc' = ram[reg[SP] + 8]
              /\ reg'[SP] = reg[SP] + 9
        /\ (last.op = "check_interrupts" /\ last'.op = "IRET")
           => /\ \A j \in SavedRegs : reg'[j] = last.reg[j]
              /\ fl' = last.fl
              /\ pc' = last.pc
              /\ reg'[SP] = last.reg[SP]
              /\ interrupts_active'
      ]_vars

\* C2: the RET matching a CALL executed at address p sets the program
\* counter to p + 2 and the stack pointer to its value before the CALL, at
\* any nesting depth, when the body leaves the stack balanced and the stack
\* stays inside memory (calls holds p + 2 and the stack pointer of every
\* open CALL, recorded when the CALL was made).
C2_RetReturnsAfterCall ==
    [][ (last'.op = "RET" /\ last'.m > 0)
           => /\ pc' = calls[last'.m].ret
              /\ reg'[SP] = calls[last'.m].sp
              /\ Len(calls') = last'.m - 1
      ]_vars

\* C2 witness: a CALL made at address 243 inside another call has returned
\* to 245 with the stack pointer back at the outer call's level.
C2_Witness ==
    /\ last.op = "RET"
    /\ last.m = 2
    /\ pc = 245
    /\ reg[SP] = StackTop - 1
    /\ status = "running"

Exact(op, x, y) ==
    CASE op = "ADD" -> x + y
      [] op = "ADDI" -> x + y
      [] op = "MUL" -> x * y
      [] op = "AND" -> BitAnd(x, y)
      [] op = "OR" -> BitOr(x, y)
      [] op = "XOR" -> BitXor(x, y)
      [] op = "SHL" -> x * Pow2(y)

Bytes == 0..255

\* C4: for register values and immediates in 0..255, the destination
\* register after ADD, ADDI, MUL, AND, OR, XOR and SHL holds the exact
\* result reduced modulo 256.
C4_ArithmeticWraps ==
    [][ LET op == last'.op
            x == reg[last'.a]
            y == IF op = "ADDI" THEN last'.b ELSE reg[last'.b]
        IN  ( /\ op \in {"ADD", "ADDI", "MUL", "AND", "OR", "XOR", "SHL"}
              /\ x \in Bytes
              /\ y \in Bytes
              /\ status' = "running" )
               => reg'[last'.a] = Exact(op, x, y) % 256
      ]_vars

\* C5: after CMP of a and b the flags value is exactly 1, 2 or 4: 1 iff
\* a = b, 2 iff a > b, 4 iff a < b.
C5_CmpSetsOneFlag ==
    [][ (last'.op = "CMP" /\ status' = "running")
           => LET a == reg[last'.a]
                  b == reg[last'.b]
              IN  /\ fl' \in {1, 2, 4}
                  /\ (fl' = 1) <=> (a = b)
                  /\ (fl' = 2) <=> (a > b)
                  /\ (fl' = 4) <=> (a < b)
      ]_vars

\* C5 witness: CMP has compared R0 = 16 with R1 = 200 and set less-than.
C5_Witness ==
    /\ last.op = "CMP"
    /\ last.a = 0
    /\ last.b = 1
    /\ reg[0] = 16
    /\ reg[1] = 200
    /\ fl = 4

\* C6: JEQ at address p sets the program counter to its operand register
\* when bit 0 of the flags is set and to p + 2 otherwise, JNE the other way
\* round; right after a CMP of a and b that is: JEQ jumps iff a = b, JNE
\* jumps iff a # b.
C6_ConditionalJumps ==
    [][ /\ (last'.op = "JEQ" /\ status' = "running")
           => pc' = IF fl % 2 = 1 THEN reg[last'.a] ELSE pc + 2
        /\ (last'.op = "JNE" /\ status' = "running")
           => pc' = IF fl % 2 = 0 THEN reg[last'.a] ELSE pc + 2
        /\ (last.op = "CMP" /\ last'.op = "JEQ" /\ status' = "running")
           => pc' = IF last.reg[last.a] = last.reg[last.b]
                    THEN reg[last'.a] ELSE pc + 2
        /\ (last.op = "CMP" /\ last'.op = "JNE" /\ status' = "running")
           => pc' = IF last.reg[last.a] # last.reg[last.b]
                    THEN reg[last'.a] ELSE pc + 2
      ]_vars

\* C6 witness: after CMP found R0 = R0 (flags 1), JEQ R0 at address 0 has
\* jumped to the 200 held in R0.
C6_Witness ==
    /\ last.op = "JEQ"
    /\ last.pc = 0
    /\ fl = 1
    /\ reg[0] = 200
    /\ pc = 200

\* C7: a step of the run loop on an opcode of the dispatch table leaves the
\* program counter at its value at fetch plus (ir >> 6) + 1 when bit 4 of
\* ir is clear, and at the value the handler assigned when bit 4 is set.
C7_LoopAdvancesPc ==
    [][ ( /\ last'.op = "run"
          /\ ~BadRam(pc) /\ ~BadRam(pc + 1) /\ ~BadRam(pc + 2)
          /\ ram[pc] \in Opcodes )
           => LET ir == ram[pc]
              IN  IF SetPc(ir) = 0
                  THEN pc' = pc + (ir \div 64) + 1
                  ELSE pc' = Dispatch(Cur, ir, ram[pc + 1], ram[pc + 2]).pc
      ]_vars

\* The lowest-numbered bit among 0..7 set in a non-negative m, 8 if none.
LowestBit(m) ==
    IF \E i \in 0..7 : (m \div Pow2(i)) % 2 = 1
    THEN CHOOSE i \in 0..7 :
            /\ (m \div Pow2(i)) % 2 = 1
            /\ \A j \in 0..(i - 1) : (m \div Pow2(j)) % 2 = 0
    ELSE 8

\* C8: polling with interrupts active and (mask AND pending) non-zero
\* dispatches the lowest-numbered set bit i: the program counter becomes the
\* content of cell 0xF8 + i; with (mask AND pending) zero nothing changes.
C8_LowestPendingDispatched ==
    [][ (last'.op = "check_interrupts" /\ interrupts_active)
           => LET masked == BitAnd(reg[IM], reg[IS])
              IN  IF LowestBit(masked) < 8
                  THEN /\ status' = "running"
                       /\ ~interrupts_active'
                       /\ pc' = ram[VectorBase + LowestBit(masked)]
                  ELSE /\ status' = "running"
                       /\ UNCHANGED <<ram, reg, pc, fl, interrupts_active, out>>
      ]_vars

\* The case C9 speaks of, a state with the active-interrupts flag false,
\* is never reached: check_interrupts raises at line 266, before line 270
\* clears the flag, and nothing else assigns it False.
InterruptsNeverInactive == interrupts_active

\* The cells of the interrupt vector table, 0xF8..0xFF.
VectorCells == VectorBase..(RamSize - 1)

\* C10: from the constructed machine, no PUSH, POP, CALL, RET, interrupt
\* dispatch or IRET changes a cell of the vector table.
C10_VectorsNeverWritten ==
    [][ (last'.op \in {"PUSH", "POP", "CALL", "RET", "check_interrupts", "IRET"})
           => \A c \in VectorCells : ram'[c] = ram[c]
      ]_vars

\* The outcomes that end execution in a failure: every status other than
\* running and the normal halt.
Failed(st) == st \notin {"running", "halted"}

\* C11: a PUSH or CALL entered with the stack pointer at 0 or below, and a
\* POP or RET entered with it at 255 or above, ends execution in a failure
\* state instead of wrapping: no memory cell is written (a push with the
\* stack pointer at 0 does not write cell 255) and no register changes.
C11_StackBoundsFail ==
    [][ /\ (last'.op \in {"PUSH", "CALL"} /\ reg[SP] <= 0)
            => (Failed(status') /\ ram' = ram /\ reg' = reg)
        /\ (last'.op \in {"POP", "RET"} /\ reg[SP] >= RamSize - 1)
            => (Failed(status') /\ ram' = ram /\ reg' = reg)
      ]_vars

\* C12: MOD with a zero divisor reports the error and halts as HLT does:
\* the destination register, like every register, keeps its value, the
\* program counter is not advanced and the machine is halted; with a
\* non-zero divisor the destination receives a mod b and execution goes on.
C12_ModZeroHalts ==
    [][ (last'.op = "MOD")
           => IF reg[last'.b] = 0
              THEN /\ status' = "halted"
                   /\ reg' = reg
                   /\ pc' = pc
                   /\ out' = Append(out, [msg |-> "ERROR: Cannot divide by zero"])
              ELSE /\ status' = "running"
                   /\ reg'[last'.a] = PyMod(reg[last'.a], reg[last'.b])
      ]_vars

\* C13: a byte that is not a key of the dispatch table ends execution in a
\* fatal error and is never treated as a no-op: the lookup raises KeyError,
\* and both the lookup and an iteration of the run loop standing on such a
\* byte change no register, memory cell, flag, output or program counter.
C13_UnknownOpcodeFatal ==
    [][ /\ (last'.op = "dispatch" /\ last'.a \notin Opcodes)
            => /\ status' = "KeyError"
               /\ UNCHANGED <<ram, reg, pc, fl, interrupts_active, out>>
        /\ (last'.op = "run" /\ ~BadRam(pc) /\ ram_read(Cur, pc) \notin Opcodes)
            => /\ Failed(status')
               /\ UNCHANGED <<ram, reg, pc, fl, interrupts_active, out>>
      ]_vars

\* C13 witness: after LDI R0,200 the byte 255, no opcode, was looked up in
\* the dispatch table; the machine stopped with KeyError and R0 still 200.
C13_Witness ==
    /\ last.op = "dispatch"
    /\ last.a = 255
    /\ status = "KeyError"
    /\ reg[0] = 200

\* Whether memory holds LDI R0,a; LDI R1,b; MUL R0,R1; PRN R0; HLT from
\* address 0 on.
MulProgramLoaded ==
    /\ <<ram[0], ram[1], ram[3], ram[4]>> = <<LDI, 0, LDI, 1>>
    /\ <<ram[6], ram[7], ram[8]>> = <<MUL, 0, 1>>
    /\ <<ram[9], ram[10], ram[11]>> = <<PRN, 0, HLT>>

\* C14: while the program LDI R0,a; LDI R1,b; MUL R0,R1; PRN R0; HLT runs
\* with no interrupt signalled, no iteration of the loop ends in a failure;
\* the machine becomes halted only in an iteration standing on HLT, and
\* the output then holds exactly one value, the product a * b.
C14_MulProgramHalts ==
    [][ (MulProgramLoaded /\ last'.op = "run" /\ last'.a = 0 /\ last'.b = 0)
           => /\ ~Failed(status')
              /\ (status' = "halted")
                    => /\ ram_read(Cur, pc) = HLT
                       /\ out' = <<[num |-> ram[2] * ram[5]]>>
      ]_vars

\* C15: an interrupt dispatch (polling with interrupts active and an
\* enabled bit pending) from stack pointer s, program counter p and flags f
\* clears the active-interrupts flag and the pending register and pushes
\* p, f, R0, ..., R6 in this order: cell s - 1 holds p, cell s - 2 holds f,
\* cell s - 3 - j holds Rj, and the stack pointer is s - 9.
C15_DispatchPushesNine ==
    [][ ( /\ last'.op = "check_interrupts"
          /\ interrupts_active
          /\ BitAnd(reg[IM], reg[IS]) # 0
          /\ FrameInMemory(reg[SP] - 9) )
           => LET s == reg[SP]
              IN  /\ status' = "running"
                  /\ ~interrupts_active'
                  /\ reg'[IS] = 0
                  /\ ram'[s - 1] = pc
                  /\ ram'[s - 2] = fl
                  /\ \A j \in SavedRegs : ram'[s - 3 - j] = reg'[j]
                  /\ reg'[SP] = s - 9
      ]_vars

\* C17: interrupt signals are not lost.  An iteration of the run loop in
\* which the timer (bit 0) or the keyboard (bit 1) signals leaves that bit
\* set in the pending register, unless the interrupt was dispatched in the
\* same iteration; IRET keeps every bit set in the pending register and
\* execution goes on with interrupts active; and polling right after IRET
\* with an enabled bit pending dispatches (the flag becomes false).
C17_SignalsNotLost ==
    [][ /\ (last'.op = "run" /\ last'.a = 1)
            => /\ ~Failed(status')
               /\ (BitAnd(reg'[IS], 1) = 1 \/ ~interrupts_active')
        /\ (last'.op = "run" /\ last'.b = 1)
            => /\ ~Failed(status')
               /\ (BitAnd(reg'[IS], 2) = 2 \/ ~interrupts_active')
        /\ (last'.op = "IRET")
            => /\ status' = "running"
               /\ interrupts_active'
               /\ BitAnd(reg'[IS], reg[IS]) = reg[IS]
        /\ ( /\ last.op = "IRET"
             /\ last'.op \in {"check_interrupts", "run"}
             /\ BitAnd(reg[IM], reg[IS]) # 0 )
            => /\ status' = "running"
               /\ ~interrupts_active'
      ]_vars

\* The handlers C18 lists as leaving the flags alone, and interrupt polling.
FlagPreservingOps ==
    {"LDI", "PRN", "PUSH", "POP", "CALL", "RET", "JMP", "JEQ", "JNE", "ADD",
     "ADDI", "MUL", "AND", "OR", "XOR", "NOT", "SHL", "SHR", "MOD",
     "check_interrupts"}

\* C18: every handler other than CMP and IRET, and interrupt polling, leave
\* the flags exactly as they were before the step, and CMP changes no
\* register.
C18_FlagsOnlyByCmp ==
    [][ /\ (last'.op \in FlagPreservingOps) => fl' = fl
        /\ (last'.op = "CMP") => reg' = reg
      ]_vars

\* C18 witness: CMP found R0 = 200 greater than R1 = 0 (flags 2), and the
\* ADD that followed left the flags at 2.
C18_Witness ==
    /\ last.op = "ADD"
    /\ last.fl = 2
    /\ fl = 2
    /\ reg[0] = 200

\* C19: each of the 8 registers and each of the 256 memory cells holds an
\* integer in 0..255.
C19_ByteRange ==
    /\ \A r \in DOMAIN reg : reg[r] \in Bytes
    /\ \A c \in DOMAIN ram : ram[c] \in Bytes

\* The byte at address c, 0 beyond the end of memory.
ByteAt(c) == IF c \in DOMAIN ram THEN ram[c] ELSE 0

\* C20: an iteration of the run loop, with no interrupt signalled, standing
\* on an opcode whose own bytes all lie inside memory (pc + operand count
\* <= 255) fetches and executes it: the iteration ends as the opcode's
\* handler ends, so a HLT at 0xFE or 0xFF halts, and never in a failure
\* the handler did not raise.
C20_FetchNeedsOnlyOwnBytes ==
    [][ ( /\ last'.op = "run" /\ last'.a = 0 /\ last'.b = 0
          /\ pc \in DOMAIN ram
          /\ ram[pc] \in Opcodes
          /\ pc + OperandCount(ram[pc]) <= RamSize - 1 )
           => status' = branch_table(Cur, ram[pc], ByteAt(pc + 1),
                                     ByteAt(pc + 2)).status
      ]_vars

=============================================================================
